---- MODULE Spec2Model ----
(***************************************************************************)
(* The interview-answer scoring core of interviewAi: analyze_fluency       *)
(* (fluency_analyzer.py), detect_star (star_detector.py) and               *)
(* track_confidence (confidence_tracker.py), as called from main.py.       *)
(*                                                                         *)
(* Representation.  A transcript is a sequence of whitespace-separated     *)
(* words; a word is [w |-> its letters, eos |-> whether a full stop is     *)
(* attached to it].  The text is the words joined by single blanks, so     *)
(* str.split() is the sequence itself and " ".join() is concatenation.     *)
(* The vocabulary is chosen so that a cue phrase is a substring of the     *)
(* text exactly where its words occur consecutively with no full stop      *)
(* between them, which is how str.count and the `in` operator are          *)
(* computed here.  The spaCy pipeline is the external tokenizer: one       *)
(* token per word, the full stop a punctuation token that ends the         *)
(* sentence.                                                               *)
(*                                                                         *)
(* Arithmetic.  The score arithmetic is done exactly on rationals          *)
(* (numerator, denominator) and truncated where the code applies int().    *)
(* Emotion readings are counted in fortieths (0.5 = 20, 0.3 = 12,          *)
(* 0.4 = 16); the confidence readings of the model are multiples of 1/8,   *)
(* on which the binary floating point evaluation of combined_score         *)
(* agrees with the exact one.                                              *)
(***************************************************************************)
EXTENDS Integers, Sequences, FiniteSets, TLC

VARIABLES
    transcript,     \* the answer text handed to the three scorers
    duration,       \* duration_seconds of the request
    timeline,       \* emotion_timeline of the request
    hashSeed,       \* string hash seed of the running interpreter
    fluency,        \* last value returned by analyze_fluency
    star,           \* last value returned by detect_star
    trend,          \* last value returned by track_confidence
    parts,          \* the three word segments of the last track_confidence call
    original,       \* the transcript before a filler was added to it
    before,         \* the fluency report of that earlier transcript
    tokenizer,      \* what the next calls of nlp do: return or raise
    calls,          \* the scorer calls that run at the same time
    frames,         \* the names bound in the module and in each running call
    calc            \* counts of an answer and the score computed from them

vars == <<transcript, duration, timeline, hashSeed, fluency, star, trend,
          parts, original, before, tokenizer, calls, frames, calc>>

(***************************************************************************)
(* Bounds of the model.                                                    *)
(***************************************************************************)
MaxChunks == 2
MaxSnaps == 3
NumSeeds == 2
MaxPieces == 3

(***************************************************************************)
(* Arithmetic helpers.                                                     *)
(***************************************************************************)
Min(a, b) == IF a <= b THEN a ELSE b

Max(a, b) == IF a >= b THEN a ELSE b

\* int(a / b) for b > 0: truncation towards zero
Trunc(a, b) == IF a >= 0 THEN a \div b ELSE -((-a) \div b)

\* round(a / b, 1) for a >= 0, b > 0, in tenths, ties to even
Round1(a, b) ==
    LET q == (10 * a) \div b
        r == (10 * a) % b
    IN  IF 2 * r > b \/ (2 * r = b /\ q % 2 = 1) THEN q + 1 ELSE q

RECURSIVE SumSeq(_)
SumSeq(s) == IF s = <<>> THEN 0 ELSE s[1] + SumSeq(Tail(s))

RECURSIVE Gcd(_, _)
Gcd(a, b) == IF b = 0 THEN a ELSE Gcd(b, a % b)

\* the fraction a / b (b > 0) in lowest terms
Frac(a, b) ==
    LET g == Gcd(IF a < 0 THEN -a ELSE a, b)
    IN  <<a \div g, b \div g>>

(***************************************************************************)
(* Python's float, the IEEE 754 double, for values >= 0.  A double is      *)
(* written as the set of the exponents of its binary digits: its value is  *)
(* the sum of 2^e over the set.  Every operation gives the exact result    *)
(* rounded to Mantissa binary digits, ties to even.                        *)
(***************************************************************************)
Mantissa == 53

Bit(x, e) == IF e \in x THEN 1 ELSE 0

HighBit(x) == CHOOSE m \in x : \A n \in x : n <= m

LowBit(x) == CHOOSE m \in x : \A n \in x : m <= n

\* float(n) for an integer 0 <= n < 2048
IntBits(n) == {e \in 0..10 : (n \div 2^e) % 2 = 1}

\* int(x)
RECURSIVE IntPart(_)
IntPart(x) ==
    IF \A e \in x : e < 0 THEN 0
    ELSE LET e == CHOOSE k \in x : k >= 0 IN 2^e + IntPart(x \ {e})

\* x * 2^k
Shift(x, k) == {e + k : e \in x}

RECURSIVE AddFrom(_, _, _, _, _)
AddFrom(x, y, e, hi, carry) ==
    IF e > hi THEN (IF carry = 1 THEN {e} ELSE {})
    ELSE LET s == Bit(x, e) + Bit(y, e) + carry
         IN  (IF s % 2 = 1 THEN {e} ELSE {}) \cup AddFrom(x, y, e + 1, hi, s \div 2)

\* the exact sum
Add(x, y) ==
    IF x = {} THEN y ELSE IF y = {} THEN x
    ELSE AddFrom(x, y, LowBit(x \cup y), HighBit(x \cup y), 0)

RECURSIVE SubFrom(_, _, _, _, _)
SubFrom(x, y, e, hi, borrow) ==
    IF e > hi THEN {}
    ELSE LET d == Bit(x, e) - Bit(y, e) - borrow
         IN  (IF d % 2 = 1 THEN {e} ELSE {})
             \cup SubFrom(x, y, e + 1, hi, IF d < 0 THEN 1 ELSE 0)

\* the exact difference, for x >= y
Sub(x, y) == IF y = {} THEN x ELSE SubFrom(x, y, LowBit(x \cup y), HighBit(x \cup y), 0)

RoundDouble(x) ==
    IF x = {} THEN {}
    ELSE LET cut  == HighBit(x) - (Mantissa - 1)
             kept == {e \in x : e >= cut}
             up   == (cut - 1) \in x /\ (cut \in x \/ \E e \in x : e < cut - 1)
         IN  IF up THEN Add(kept, {cut}) ELSE kept

\* the binary digits of rem / b < 1 from 2^e down to 2^lo, and one digit
\* further down for all that is left
RECURSIVE FracBits(_, _, _, _)
FracBits(rem, b, e, lo) ==
    IF e < lo THEN (IF rem # 0 THEN {lo - 2} ELSE {})
    ELSE LET d == 2 * rem
         IN  (IF d >= b THEN {e} ELSE {})
             \cup FracBits(IF d >= b THEN d - b ELSE d, b, e - 1, lo)

\* a / b for integers 0 <= a < 2048 and 0 < b < 2048
Div(a, b) ==
    CHOOSE q \in {RoundDouble(exact) :
                     exact \in {IntBits(a \div b) \cup FracBits(a % b, b, -1, -(Mantissa + 12))}} : TRUE

\* x * 100
Times100(x) ==
    CHOOSE q \in {RoundDouble(exact) :
                     exact \in {Add(Add(Shift(x, 6), Shift(x, 5)), Shift(x, 2))}} : TRUE

\* x > n for an integer n
Greater(x, n) == IntPart(x) > n \/ (IntPart(x) = n /\ \E e \in x : e < 0)

\* min(n, x) for an integer n
MinOf(n, x) == IF Greater(x, n) THEN IntBits(n) ELSE x

\* x - y for x >= y
Minus(x, y) == CHOOSE q \in {RoundDouble(exact) : exact \in {Sub(x, y)}} : TRUE

\* x + y
Plus(x, y) == CHOOSE q \in {RoundDouble(exact) : exact \in {Add(x, y)}} : TRUE

(***************************************************************************)
(* Text helpers.                                                           *)
(***************************************************************************)
\* str.lower() on the words of the vocabulary
Lower(w) ==
    CASE w = "I"  -> "i"
      [] w = "Um" -> "um"
      [] w = "We" -> "we"
      [] w = "Last" -> "last"
      [] w = "When" -> "when"
      [] OTHER    -> w

\* transcript.lower()
LowerText(text) == [i \in 1..Len(text) |-> [w |-> Lower(text[i].w), eos |-> text[i].eos]]

\* len(transcript.strip()): letters, attached full stops, single blanks between
StripLen(text) ==
    IF text = <<>> THEN 0
    ELSE SumSeq([i \in 1..Len(text) |-> Len(text[i].w) + (IF text[i].eos THEN 1 ELSE 0)])
         + (Len(text) - 1)

\* the positions where phrase p (a sequence of lower-case words) starts in text
PhraseAt(text, p) ==
    {i \in 1..(Len(text) - Len(p) + 1) :
        \A j \in 1..Len(p) :
            /\ text[i + j - 1].w = p[j]
            /\ (j < Len(p) => ~text[i + j - 1].eos)}

\* str.count(p)
CountPhrase(text, p) == Cardinality(PhraseAt(text, p))

\* p in text
Contains(text, p) == PhraseAt(text, p) # {}

\* sum(text.count(p) for p in table)
CountTable(text, table) == SumSeq([k \in 1..Len(table) |-> CountPhrase(text, table[k])])

(***************************************************************************)
(* Cue tables of fluency_analyzer.py.  A phrase is its sequence of words.  *)
(* FILLER_WORDS is a Python set of strings: it is listed here in source    *)
(* order and iterated in the order FillerOrder gives for the hash seed.    *)
(***************************************************************************)
FILLER_WORDS ==
    << <<"um">>, <<"uh">>, <<"umm">>, <<"uhh">>, <<"hmm">>,
       <<"like">>, <<"basically">>, <<"literally">>, <<"actually">>,
       <<"right">>, <<"okay">>, <<"so">>, <<"well">>,
       <<"you", "know">>, <<"i", "mean">>, <<"you", "see">>,
       <<"i", "guess">>, <<"kind", "of">>, <<"sort", "of">> >>

HEDGE_PHRASES ==
    << <<"i", "think">>, <<"i", "guess">>, <<"i", "believe">>, <<"maybe">>,
       <<"probably">>, <<"possibly">>, <<"might", "be">>, <<"could", "be">>,
       <<"i'm", "not", "sure">>, <<"i", "suppose">>, <<"somewhat">>,
       <<"a", "little", "bit">>, <<"more", "or", "less">> >>

WEAK_OPENERS ==
    << <<"so", "basically">>, <<"um", "so">>, <<"like", "i", "said">>,
       <<"you", "know", "what">>, <<"to", "be", "honest">>,
       <<"i", "mean", "like">>, <<"well", "basically">> >>

CONFIDENCE_MARKERS ==
    << <<"i", "led">>, <<"i", "built">>, <<"i", "designed">>, <<"i", "created">>,
       <<"i", "achieved">>, <<"i", "improved">>, <<"i", "managed">>, <<"i", "developed">>,
       <<"i", "implemented">>, <<"i", "increased">>, <<"i", "reduced">>, <<"i", "delivered">>,
       <<"we", "launched">>, <<"i", "owned">>, <<"i", "drove">> >>

VAGUE_QUANTIFIERS ==
    << <<"many">>, <<"some">>, <<"a", "lot">>, <<"lots">>, <<"several">>,
       <<"various">>, <<"multiple">>, <<"few">>, <<"bunch">>, <<"tons">>,
       <<"stuff">>, <<"things">>, <<"something">>, <<"somehow">> >>

\* what follows the leading digits of a word ("none": no leading digit)
NumSuffix(w) ==
    CASE w = "50"     -> ""
      [] w = "3"      -> ""
      [] w = "50%"    -> "%"
      [] w = "10x"    -> "x"
      [] w = "5weeks" -> "weeks"
      [] w = "10ms"   -> "ms"
      [] w = "3daysago" -> "daysago"
      [] OTHER        -> "none"

\* the number of matches STRONG_QUANTIFIERS.findall finds in one word:
\* \b\d+[\%x]?\b matches the digits of "50", "50%" and all of "10x";
\* \b\d+\s*(unit)\b matches digits with a unit word attached
STRONG_QUANTIFIERS(w) ==
    IF \/ NumSuffix(w) \in {"", "%", "x"}
       \/ NumSuffix(w) \in {"percent", "times", "hours", "days", "weeks",
                            "months", "years", "people", "users", "ms"}
    THEN 1 ELSE 0

\* the order in which `for filler in FILLER_WORDS` visits the table: set
\* iteration follows the string hashes, which change with the hash seed of
\* the interpreter; the seeds of the model give rotations of the table,
\* ascending for an odd seed and descending for an even one
FillerOrder(seed) ==
    LET n == Len(FILLER_WORDS)
    IN  [i \in 1..n |-> IF seed % 2 = 1
                        THEN ((i - 1 + seed) % n) + 1
                        ELSE ((n - i + seed) % n) + 1]

(***************************************************************************)
(* The tokenizer nlp(transcript).                                          *)
(***************************************************************************)
\* [token.text.lower() for token in doc if not token.is_punct]
Words(text) == [i \in 1..Len(text) |-> Lower(text[i].w)]

\* the last word of every sentence of doc.sents
SentenceEnds(text) ==
    {i \in 1..Len(text) : text[i].eos \/ i = Len(text)}

\* [len(s.text.split()) for s in sentences], as a bag indexed by sentence end
SentLength(text, e) ==
    LET earlier == {x \in 1..(e - 1) : text[x].eos}
        start   == IF earlier = {} THEN 0
                   ELSE CHOOSE x \in earlier : \A y \in earlier : y <= x
    IN  e - start

\* token.is_stop
IsStop(w) ==
    Lower(w) \in {"i", "we", "you", "the", "so", "of", "many", "a", "be", "or",
                  "to", "well", "not", "more", "less", "might", "could", "then",
                  "first", "next", "my", "was", "in", "at", "that", "this",
                  "which", "as", "last", "when", "had", "it", "our", "were",
                  "some", "several", "various", "few", "something", "somehow"}

\* token.lemma_.lower()
Lemma(w) ==
    CASE Lower(w) = "teams" -> "team"
      [] Lower(w) = "saved" -> "save"
      [] Lower(w) = "owned" -> "own"
      [] Lower(w) = "tasked" -> "task"
      [] OTHER -> Lower(w)

\* the content words: lemmas of the tokens that are no stop word, no
\* punctuation and longer than 3 letters
ContentWords(text) ==
    LET keep == {i \in 1..Len(text) : ~IsStop(text[i].w) /\ Len(text[i].w) > 3}
    IN  [i \in keep |-> Lemma(text[i].w)]

\* {w: c for w, c in Counter(content_words).items() if c >= 3}, in the
\* insertion order of the Counter (first occurrence of each lemma)
RepeatedWords(text) ==
    LET cw    == ContentWords(text)
        first == {i \in DOMAIN cw :
                     /\ \A j \in DOMAIN cw : j < i => cw[j] # cw[i]
                     /\ Cardinality({j \in DOMAIN cw : cw[j] = cw[i]}) >= 3}
        picked == SelectSeq([i \in 1..Len(text) |-> i], LAMBDA i : i \in first)
    IN  [k \in 1..Len(picked) |-> cw[picked[k]]]

(***************************************************************************)
(* analyze_fluency (fluency_analyzer.py).                                  *)
(***************************************************************************)
\* one entry of issues / strengths: the message and the values formatted in
Note(msg, n, names, counts) == [msg |-> msg, n |-> n, names |-> names, counts |-> counts]

Plain(msg) == Note(msg, 0, <<>>, <<>>)

EmptyResult ==
    [fluency_score         |-> 0,
     word_count            |-> 0,
     filler_count          |-> 0,
     filler_rate_percent   |-> 0,
     filler_breakdown      |-> <<>>,
     hedge_count           |-> 0,
     confidence_markers    |-> 0,
     specific_numbers_used |-> 0,
     vague_words_used      |-> 0,
     avg_sentence_length   |-> 0,
     wpm                   |-> 0,
     repeated_words        |-> <<>>,
     issues                |-> <<Plain("No transcript detected")>>,
     strengths             |-> <<>>]

\* the guard of the early return
FluencyDegenerate(text) == text = <<>> \/ StripLen(text) < 10

\* count of one filler: substring count for a phrase, token count for a word
FillerCount(text, filler) ==
    IF Len(filler) > 1
    THEN CountPhrase(LowerText(text), filler)
    ELSE Cardinality({i \in 1..Len(text) : Lower(text[i].w) = filler[1]})

\* filler_counts: the fillers that occur, in the iteration order of the set
FillerCounts(text, seed) ==
    LET order == FillerOrder(seed)
        hit   == SelectSeq(order, LAMBDA k : FillerCount(text, FILLER_WORDS[k]) > 0)
    IN  [i \in 1..Len(hit) |->
            [filler |-> FILLER_WORDS[hit[i]], count |-> FillerCount(text, FILLER_WORDS[hit[i]])]]

\* sum(1 for w in words if w == v) over the one-word vague quantifiers
VagueCount(text) ==
    SumSeq([k \in 1..Len(VAGUE_QUANTIFIERS) |->
               IF Len(VAGUE_QUANTIFIERS[k]) > 1 THEN 0
               ELSE Cardinality({i \in 1..Len(text) : Lower(text[i].w) = VAGUE_QUANTIFIERS[k][1]})])

StrongNumbers(text) == SumSeq([i \in 1..Len(text) |-> STRONG_QUANTIFIERS(text[i].w)])

VeryShortSents(text) ==
    Cardinality({e \in SentenceEnds(text) : SentLength(text, e) < 5})

VeryLongSents(text) ==
    Cardinality({e \in SentenceEnds(text) : SentLength(text, e) > 35})

\* Score without the final max(0, min(100, ...))
ScoreUnclamped(total_fillers, word_count, hedge_count, weak_opener_count, vague_count, very_short_sents, very_long_sents, repeated, confidence_count, strong_numbers) ==
    LET rest == 100 - Min(15, hedge_count * 3)
                    - Min(10, weak_opener_count * 5)
                    - Min(10, vague_count * 2)
                    - Min(10, very_short_sents * 3)
                    - Min(10, very_long_sents * 3)
                    - Min(10, repeated * 2)
                    + Min(10, confidence_count * 3)
                    + Min(10, strong_numbers * 2)
    IN  IF word_count > 0
        THEN Trunc(rest * word_count - Min(30 * word_count, 200 * total_fillers), word_count)
        ELSE rest

\* Score with the filler term added instead of subtracted
ScoreFillerBonus(total_fillers, word_count, hedge_count, weak_opener_count, vague_count, very_short_sents, very_long_sents, repeated, confidence_count, strong_numbers) ==
    LET rest == 100 - Min(15, hedge_count * 3)
                    - Min(10, weak_opener_count * 5)
                    - Min(10, vague_count * 2)
                    - Min(10, very_short_sents * 3)
                    - Min(10, very_long_sents * 3)
                    - Min(10, repeated * 2)
                    + Min(10, confidence_count * 3)
                    + Min(10, strong_numbers * 2)
        raw  == IF word_count > 0
                THEN Trunc(rest * word_count + Min(30 * word_count, 200 * total_fillers),
                           word_count)
                ELSE rest
    IN  Max(0, Min(100, raw))

\* Score with no cap on the filler term
ScoreFillerUncapped(total_fillers, word_count, hedge_count, weak_opener_count, vague_count, very_short_sents, very_long_sents, repeated, confidence_count, strong_numbers) ==
    LET rest == 100 - Min(15, hedge_count * 3)
                    - Min(10, weak_opener_count * 5)
                    - Min(10, vague_count * 2)
                    - Min(10, very_short_sents * 3)
                    - Min(10, very_long_sents * 3)
                    - Min(10, repeated * 2)
                    + Min(10, confidence_count * 3)
                    + Min(10, strong_numbers * 2)
        raw  == IF word_count > 0
                THEN Trunc(rest * word_count - 200 * total_fillers, word_count)
                ELSE rest
    IN  Max(0, Min(100, raw))

\* lines 110-121: the score from the counts; filler_rate is
\* total_fillers / word_count * 100, so the first term is 200*tf/wc
Score(total_fillers, word_count, hedge_count, weak_opener_count, vague_count, very_short_sents, very_long_sents, repeated, confidence_count, strong_numbers) ==
    LET rest == 100 - Min(15, hedge_count * 3)
                    - Min(10, weak_opener_count * 5)
                    - Min(10, vague_count * 2)
                    - Min(10, very_short_sents * 3)
                    - Min(10, very_long_sents * 3)
                    - Min(10, repeated * 2)
                    + Min(10, confidence_count * 3)
                    + Min(10, strong_numbers * 2)
        raw  == IF word_count > 0
                THEN Trunc(rest * word_count - Min(30 * word_count, 200 * total_fillers),
                           word_count)
                ELSE rest
    IN  Max(0, Min(100, raw))

\* lines 70 and 111: min(30, filler_rate * 2) as Python computes it
FillerTerm(total_fillers, word_count) ==
    IF word_count > 0
    THEN MinOf(30, Shift(Times100(Div(total_fillers, word_count)), 1))
    ELSE {}

\* lines 111-119: the nine terms in the order of the code
Terms(total_fillers, word_count, hedge_count, weak_opener_count, vague_count, very_short_sents, very_long_sents, repeated, confidence_count, strong_numbers) ==
    << [sign |-> -1, amount |-> FillerTerm(total_fillers, word_count)],
       [sign |-> -1, amount |-> IntBits(Min(15, hedge_count * 3))],
       [sign |-> -1, amount |-> IntBits(Min(10, weak_opener_count * 5))],
       [sign |-> -1, amount |-> IntBits(Min(10, vague_count * 2))],
       [sign |-> -1, amount |-> IntBits(Min(10, very_short_sents * 3))],
       [sign |-> -1, amount |-> IntBits(Min(10, very_long_sents * 3))],
       [sign |-> -1, amount |-> IntBits(Min(10, repeated * 2))],
       [sign |->  1, amount |-> IntBits(Min(10, confidence_count * 3))],
       [sign |->  1, amount |-> IntBits(Min(10, strong_numbers * 2))] >>

\* score -= amount or score += amount for the terms listed in order
RECURSIVE ApplyTerms(_, _, _)
ApplyTerms(score, terms, order) ==
    IF order = <<>> THEN score
    ELSE CHOOSE r \in
             {ApplyTerms(next, terms, Tail(order)) :
                 next \in {IF terms[Head(order)].sign < 0
                           THEN Minus(score, terms[Head(order)].amount)
                           ELSE Plus(score, terms[Head(order)].amount)}} : TRUE

\* lines 110-120 with the terms applied in the given order
ScoreInOrder(terms, order) ==
    CHOOSE r \in {Max(0, Min(100, IntPart(ApplyTerms(IntBits(100), ts, order)))) :
                     ts \in {terms}} : TRUE

CodeOrder == <<1, 2, 3, 4, 5, 6, 7, 8, 9>>

\* the filler term applied after the eight others
ScoreDoubleFillerLast(total_fillers, word_count, hedge_count, weak_opener_count, vague_count, very_short_sents, very_long_sents, repeated, confidence_count, strong_numbers) ==
    ScoreInOrder(Terms(total_fillers, word_count, hedge_count, weak_opener_count, vague_count, very_short_sents, very_long_sents, repeated, confidence_count, strong_numbers), <<2, 3, 4, 5, 6, 7, 8, 9, 1>>)

\* lines 110-120 in Python's arithmetic: score starts as the int 100 and is
\* a float from line 111 on
ScoreDouble(total_fillers, word_count, hedge_count, weak_opener_count, vague_count, very_short_sents, very_long_sents, repeated, confidence_count, strong_numbers) ==
    ScoreInOrder(Terms(total_fillers, word_count, hedge_count, weak_opener_count, vague_count, very_short_sents, very_long_sents, repeated, confidence_count, strong_numbers), CodeOrder)

\* sorted(filler_counts.items(), key=lambda x: -x[1])[:3]: a stable sort, so
\* equal counts keep the order they have in filler_counts
TopFillers(fc) ==
    LET rank(i) == Cardinality({j \in 1..Len(fc) :
                        \/ fc[j].count > fc[i].count
                        \/ (fc[j].count = fc[i].count /\ j < i)})
    IN  [r \in 1..Min(3, Len(fc)) |-> fc[CHOOSE i \in 1..Len(fc) : rank(i) = r - 1]]

\* list(repeated_words.keys())[:n]
FirstN(s, n) == SubSeq(s, 1, Min(n, Len(s)))

\* int((word_count / duration_seconds) * 60), duration_seconds = dur[1] / dur[2];
\* for the durations of the model the floating-point product truncates to
\* the same integer as the exact quotient
Wpm(word_count, dur) ==
    IF dur[1] > 0 THEN Trunc(word_count * 60 * dur[2], dur[1]) ELSE 0

PacingNote(word_count, dur) ==
    IF dur[1] > 0
    THEN IF Wpm(word_count, dur) < 100
         THEN "Speaking too slowly"
         ELSE IF Wpm(word_count, dur) > 180
              THEN "Speaking too fast"
              ELSE "Good speaking pace"
    ELSE ""

\* lines 123-164: the ordered feedback rules; each yields <<issues, strengths>>
FillerRule(total_fillers, fc) ==
    IF total_fillers > 5
    THEN << <<Note("Used filler words - most frequent", total_fillers,
                   [i \in 1..Len(TopFillers(fc)) |-> TopFillers(fc)[i].filler],
                   [i \in 1..Len(TopFillers(fc)) |-> TopFillers(fc)[i].count])>>, <<>> >>
    ELSE IF total_fillers > 0
         THEN << <<Note("Minor filler words detected", total_fillers, <<>>, <<>>)>>, <<>> >>
         ELSE << <<>>, <<Plain("Zero filler words")>> >>

\* HedgeRule that fires from two hedges on
HedgeRuleFromTwo(hedge_count) ==
    IF hedge_count >= 2
    THEN << <<Note("Hedging language used", hedge_count, <<>>, <<>>)>>, <<>> >>
    ELSE << <<>>, <<>> >>

HedgeRule(hedge_count) ==
    IF hedge_count > 2
    THEN << <<Note("Hedging language used", hedge_count, <<>>, <<>>)>>, <<>> >>
    ELSE << <<>>, <<>> >>

ConfidenceRule(confidence_count) ==
    IF confidence_count >= 2
    THEN << <<>>, <<Note("Used confident action verbs", confidence_count, <<>>, <<>>)>> >>
    ELSE << <<Plain("Use more action verbs")>>, <<>> >>

NumbersRule(strong_numbers, vague_count) ==
    IF strong_numbers >= 2
    THEN << <<>>, <<Note("Backed up points with specific numbers", strong_numbers, <<>>, <<>>)>> >>
    ELSE IF vague_count > 3
         THEN << <<Note("Used vague quantifiers", vague_count, <<>>, <<>>)>>, <<>> >>
         ELSE << <<>>, <<>> >>

\* avg_sent_length = total / sentence_count
SentenceRule(total, sentence_count) ==
    IF total > 30 * sentence_count
    THEN << <<Plain("Sentences too long")>>, <<>> >>
    ELSE IF total < 8 * sentence_count
         THEN << <<Plain("Answers too brief")>>, <<>> >>
         ELSE << <<>>, <<Plain("Good sentence structure and length")>> >>

RepeatRule(repeated_words) ==
    IF repeated_words # <<>>
    THEN << <<Note("Overused words", 0, FirstN(repeated_words, 3), <<>>)>>, <<>> >>
    ELSE << <<>>, <<>> >>

PacingRule(pacing_note) ==
    IF pacing_note # ""
    THEN IF pacing_note = "Good speaking pace"
         THEN << <<>>, <<Plain(pacing_note)>> >>
         ELSE << <<Plain(pacing_note)>>, <<>> >>
    ELSE << <<>>, <<>> >>

\* lines 51-181 but for the filler loop: the report, from the text and
\* the local filler_counts that the loop of lines 59-67 has filled
FluencyReport(text, dur, filler_counts) ==
    LET text_lower        == LowerText(text)
        word_count        == Len(Words(text))
        sentence_count    == Max(Cardinality(SentenceEnds(text)), 1)
        total_fillers     == SumSeq([i \in 1..Len(filler_counts) |-> filler_counts[i].count])
        hedge_count       == CountTable(text_lower, HEDGE_PHRASES)
        weak_opener_count == CountTable(text_lower, WEAK_OPENERS)
        confidence_count  == CountTable(text_lower, CONFIDENCE_MARKERS)
        strong_numbers    == StrongNumbers(text)
        vague_count       == VagueCount(text)
        sent_total        == Len(text)
        repeated_words    == RepeatedWords(text)
        rules == << FillerRule(total_fillers, filler_counts),
                    HedgeRule(hedge_count),
                    ConfidenceRule(confidence_count),
                    NumbersRule(strong_numbers, vague_count),
                    SentenceRule(sent_total, sentence_count),
                    RepeatRule(repeated_words),
                    PacingRule(PacingNote(word_count, dur)) >>
    IN  [fluency_score         |-> Score(total_fillers, word_count, hedge_count,
                                         weak_opener_count, vague_count,
                                         VeryShortSents(text), VeryLongSents(text),
                                         Len(repeated_words), confidence_count,
                                         strong_numbers),
         word_count            |-> word_count,
         filler_count          |-> total_fillers,
         filler_rate_percent   |-> IF word_count > 0 THEN Round1(100 * total_fillers, word_count) ELSE 0,
         filler_breakdown      |-> filler_counts,
         hedge_count           |-> hedge_count,
         confidence_markers    |-> confidence_count,
         specific_numbers_used |-> strong_numbers,
         vague_words_used      |-> vague_count,
         avg_sentence_length   |-> Round1(sent_total, sentence_count),
         wpm                   |-> Wpm(word_count, dur),
         repeated_words        |-> FirstN(repeated_words, 5),
         issues                |-> rules[1][1] \o rules[2][1] \o rules[3][1] \o rules[4][1]
                                   \o rules[5][1] \o rules[6][1] \o rules[7][1],
         strengths             |-> rules[1][2] \o rules[2][2] \o rules[3][2] \o rules[4][2]
                                   \o rules[5][2] \o rules[6][2] \o rules[7][2]]

\* analyze_fluency(transcript, duration_seconds) under hash seed `seed`;
\* dur is the duration as a fraction <<numerator, denominator>>
analyze_fluency(text, dur, seed) ==
    IF FluencyDegenerate(text) THEN EmptyResult
    ELSE FluencyReport(text, dur, FillerCounts(text, seed))

(***************************************************************************)
(* detect_star (star_detector.py).                                         *)
(***************************************************************************)
SITUATION_MARKERS ==
    << <<"at", "my", "previous">>, <<"when", "i", "was">>, <<"in", "my", "last">>,
       <<"we", "were", "facing">>, <<"the", "company", "was">>, <<"our", "team", "was">>,
       <<"i", "was", "working", "at">>, <<"during", "my", "time">>, <<"a", "few", "years", "ago">>,
       <<"last", "year">>, <<"in", "my", "role", "as">>, <<"while", "working", "on">>,
       <<"at", "that", "time">>, <<"the", "project", "was">>, <<"we", "had", "a", "situation">> >>

TASK_MARKERS ==
    << <<"i", "was", "responsible">>, <<"my", "role", "was">>, <<"i", "needed", "to">>,
       <<"the", "goal", "was">>, <<"i", "was", "asked", "to">>, <<"i", "had", "to">>,
       <<"my", "job", "was">>, <<"i", "was", "tasked">>, <<"it", "was", "my", "responsibility">>,
       <<"i", "was", "in", "charge">>, <<"i", "owned">>, <<"my", "objective", "was">> >>

ACTION_MARKERS ==
    << <<"i", "decided">>, <<"i", "implemented">>, <<"i", "reached", "out">>,
       <<"i", "built">>, <<"i", "created">>, <<"i", "developed">>, <<"i", "led">>,
       <<"i", "started">>, <<"i", "worked", "on">>, <<"i", "collaborated">>,
       <<"i", "designed">>, <<"i", "proposed">>, <<"i", "took">>,
       <<"i", "scheduled">>, <<"i", "organized">>, <<"i", "analyzed">>,
       <<"first", "i">>, <<"then", "i">>, <<"next", "i">>, <<"i", "began">> >>

RESULT_MARKERS ==
    << <<"as", "a", "result">>, <<"which", "led", "to">>, <<"we", "achieved">>,
       <<"this", "resulted", "in">>, <<"the", "outcome", "was">>, <<"we", "reduced">>,
       <<"we", "improved">>, <<"we", "increased">>, <<"we", "saved">>,
       <<"ultimately">>, <<"in", "the", "end">>, <<"we", "successfully">>,
       <<"the", "impact", "was">>, <<"this", "helped">>, <<"we", "delivered">> >>

\* any(m in text_lower for m in table)
AnyMarker(text, table) == \E k \in 1..Len(table) : Contains(text, table[k])

\* the unit word a suffix starts with (the suffix itself when it is a unit)
UnitPrefix(suffix) ==
    CASE suffix = "daysago" -> "days"
      [] OTHER              -> suffix

\* whether the pattern of lines 51-54 matches inside one word: the first
\* alternative as in STRONG_QUANTIFIERS, the second with its own unit list
\* and no \b after the unit, so that the unit may be followed by letters
StarMetricWord(w) ==
    \/ NumSuffix(w) \in {"", "%", "x"}
    \/ UnitPrefix(NumSuffix(w)) \in {"percent", "times", "hours", "days", "people", "users"}

HasMetrics(text) == \E i \in 1..Len(text) : StarMetricWord(text[i].w)

\* the keys of components sorted by name
ComponentNamesSorted == <<"action", "result", "situation", "task">>

\* lines 58-63: the keys of components, in insertion order
ComponentNames == <<"situation", "task", "action", "result">>

Upper(k) ==
    CASE k = "situation" -> "SITUATION"
      [] k = "task"      -> "TASK"
      [] k = "action"    -> "ACTION"
      [] k = "result"    -> "RESULT"

EmptyStar ==
    [star_score        |-> 0,
     components_found  |-> 0,
     components_detail |-> [situation |-> FALSE, task |-> FALSE,
                            action |-> FALSE, result |-> FALSE],
     present           |-> <<>>,
     missing           |-> <<"SITUATION", "TASK", "ACTION", "RESULT">>,
     has_metrics       |-> FALSE,
     feedback          |-> <<"No transcript detected">>,
     strengths         |-> <<>>]

\* StarDegenerate with the word guard of track_confidence added
StarDegenerateWordGuard(text) == text = <<>> \/ StripLen(text) < 20 \/ Len(text) < 9

\* lines 40-41: the early return
StarDegenerate(text) == text = <<>> \/ StripLen(text) < 20

detect_star(text) ==
    IF StarDegenerate(text) THEN EmptyStar
    ELSE
    LET text_lower      == LowerText(text)
        situation_found == AnyMarker(text_lower, SITUATION_MARKERS)
        task_found      == AnyMarker(text_lower, TASK_MARKERS)
        action_found    == AnyMarker(text_lower, ACTION_MARKERS)
        has_metrics     == HasMetrics(text)
        result_found    == AnyMarker(text_lower, RESULT_MARKERS) \/ has_metrics
        components      == [situation |-> situation_found, task |-> task_found,
                            action |-> action_found, result |-> result_found]
        found_count     == Cardinality({i \in 1..4 : components[ComponentNames[i]]})
        upper           == [i \in 1..4 |-> Upper(ComponentNames[i])]
        If(c, x)        == IF c THEN <<x>> ELSE <<>>
    IN  [star_score        |-> Trunc(found_count * 100, 4),
         components_found  |-> found_count,
         components_detail |-> components,
         present           |-> SelectSeq(upper, LAMBDA u :
                                 \E i \in 1..4 : upper[i] = u /\ components[ComponentNames[i]]),
         missing           |-> SelectSeq(upper, LAMBDA u :
                                 \E i \in 1..4 : upper[i] = u /\ ~components[ComponentNames[i]]),
         has_metrics       |-> has_metrics,
         feedback          |-> If(~situation_found, "Missing SITUATION")
                               \o If(~task_found, "Missing TASK")
                               \o If(~action_found, "Missing ACTION")
                               \o If(~result_found, "Missing RESULT"),
         strengths         |-> If(action_found, "Good use of action verbs")
                               \o (IF result_found /\ has_metrics
                                   THEN <<"Excellent - backed up result with specific metrics">>
                                   ELSE If(result_found, "Result mentioned"))
                               \o If(found_count = 4, "Complete STAR structure")]

(***************************************************************************)
(* track_confidence (confidence_tracker.py).  An emotion snapshot is a     *)
(* dict: a function from some of the keys stress, confidence, neutral to   *)
(* readings in fortieths.  A dict of the report is a function too, and {}  *)
(* is the function with the empty domain.                                  *)
(***************************************************************************)
EmptyDict == [k \in {} |-> 0]

\* e.get(key, default)
Get(e, key, default) == IF key \in DOMAIN e THEN e[key] ELSE default

EmptyTrend ==
    [trend            |-> "unknown",
     trend_label      |-> "Not enough speech to analyze trend",
     trend_color      |-> "#ffffff40",
     beginning_score  |-> 0,
     middle_score     |-> 0,
     end_score        |-> 0,
     segment_details  |-> EmptyDict,
     emotion_segments |-> EmptyDict,
     feedback         |-> <<"Answer too short for trend analysis">>,
     strengths        |-> <<>>]

\* TrendDegenerate without the second early return (total < 9)
TrendDegenerateNoWordGuard(text) == text = <<>> \/ StripLen(text) < 30

\* the guards of the two early returns
TrendDegenerate(text) == text = <<>> \/ StripLen(text) < 30 \/ Len(text) < 9

\* Parts with an end segment that stops after three times third words
PartsEqualThirds(words) ==
    LET total == Len(words)
        third == total \div 3
    IN  [beginning |-> SubSeq(words, 1, third),
         middle    |-> SubSeq(words, third + 1, third * 2),
         end       |-> SubSeq(words, third * 2 + 1, third * 3)]

\* lines 18-23: the three word segments
Parts(words) ==
    LET total == Len(words)
        third == total \div 3
    IN  [beginning |-> SubSeq(words, 1, third),
         middle    |-> SubSeq(words, third + 1, third * 2),
         end       |-> SubSeq(words, third * 2 + 1, total)]

\* lines 27-34: the part of one segment's fluency analysis that is kept
SegmentDetail(analysis) ==
    [fluency_score      |-> analysis.fluency_score,
     filler_count       |-> analysis.filler_count,
     confidence_markers |-> analysis.confidence_markers,
     hedge_count        |-> analysis.hedge_count]

\* avg_emotions(segment): the means as fractions of 1 in lowest terms
avg_emotions(segment) ==
    IF segment = <<>>
    THEN [stress |-> Frac(3, 10), confidence |-> Frac(1, 2), neutral |-> Frac(2, 5)]
    ELSE [stress     |-> Frac(SumSeq([i \in 1..Len(segment) |-> Get(segment[i], "stress", 12)]),
                              40 * Len(segment)),
          confidence |-> Frac(SumSeq([i \in 1..Len(segment) |-> Get(segment[i], "confidence", 20)]),
                              40 * Len(segment)),
          neutral    |-> Frac(SumSeq([i \in 1..Len(segment) |-> Get(segment[i], "neutral", 16)]),
                              40 * Len(segment))]

\* lines 37-53: emotion_scores
EmotionScores(tl) ==
    IF tl # <<>>
    THEN LET n == Len(tl)
             t == n \div 3
         IN  [beginning |-> avg_emotions(SubSeq(tl, 1, t)),
              middle    |-> avg_emotions(SubSeq(tl, t + 1, t * 2)),
              end       |-> avg_emotions(SubSeq(tl, t * 2 + 1, n))]
    ELSE [beginning |-> EmptyDict, middle |-> EmptyDict, end |-> EmptyDict]

\* combined_score without the weights: int(fluency + emo_conf * 100 * 0.4)
CombinedUnweighted(fluency_score, c) ==
    Trunc(5 * fluency_score * c[2] + 200 * c[1], 5 * c[2])

\* combined_score with the weights exchanged: int(fluency * 0.4 + emo_conf * 100 * 0.6)
CombinedSwapped(fluency_score, c) ==
    Trunc(2 * fluency_score * c[2] + 300 * c[1], 5 * c[2])

\* int(fluency * 0.6 + emo_conf * 100 * 0.4) with emo_conf = c[1] / c[2]
combined_score(fluency_score, c) ==
    Trunc(3 * fluency_score * c[2] + 200 * c[1], 5 * c[2])

\* TrendOf with a strict first comparison (diff > 15)
TrendOfStrict(diff) ==
    IF diff > 15
    THEN [trend |-> "strongly_improving",
          trend_label |-> "Strongly Improving - you build confidence as you speak",
          trend_color |-> "#00ff88"]
    ELSE IF diff >= 5
    THEN [trend |-> "improving",
          trend_label |-> "Improving - good momentum through your answer",
          trend_color |-> "#00d4ff"]
    ELSE IF diff >= -5
    THEN [trend |-> "stable",
          trend_label |-> "Consistent - steady confidence throughout",
          trend_color |-> "#ffb300"]
    ELSE IF diff >= -15
    THEN [trend |-> "declining",
          trend_label |-> "Trailing off - strong start but lost momentum",
          trend_color |-> "#ff8c00"]
    ELSE [trend |-> "strongly_declining",
          trend_label |-> "Significant drop - confidence fell towards the end",
          trend_color |-> "#ff3d71"]

\* lines 64-85
TrendOf(diff) ==
    IF diff >= 15
    THEN [trend |-> "strongly_improving",
          trend_label |-> "Strongly Improving - you build confidence as you speak",
          trend_color |-> "#00ff88"]
    ELSE IF diff >= 5
    THEN [trend |-> "improving",
          trend_label |-> "Improving - good momentum through your answer",
          trend_color |-> "#00d4ff"]
    ELSE IF diff >= -5
    THEN [trend |-> "stable",
          trend_label |-> "Consistent - steady confidence throughout",
          trend_color |-> "#ffb300"]
    ELSE IF diff >= -15
    THEN [trend |-> "declining",
          trend_label |-> "Trailing off - strong start but lost momentum",
          trend_color |-> "#ff8c00"]
    ELSE [trend |-> "strongly_declining",
          trend_label |-> "Significant drop - confidence fell towards the end",
          trend_color |-> "#ff3d71"]

\* TrendFeedback with the closing strength given from 70, as the opening one is
TrendFeedbackEndSeventy(beginning_score, middle_score, end_score, scores) ==
    LET r1 == IF beginning_score < 50
              THEN << <<"Nervous start">>, <<>> >>
              ELSE IF beginning_score >= 70
                   THEN << <<>>, <<"Strong confident opening">> >>
                   ELSE << <<>>, <<>> >>
        r2 == IF middle_score < beginning_score - 10
              THEN << <<"Lost momentum in the middle">>, <<>> >>
              ELSE << <<>>, <<>> >>
        r3 == IF end_score >= 70
              THEN << <<>>, <<"Finished strongly">> >>
              ELSE IF end_score < 50
                   THEN << <<"Weak ending">>, <<>> >>
                   ELSE << <<>>, <<>> >>
        r4 == IF scores.beginning.filler_count > scores.end.filler_count
              THEN << <<>>, <<"Filler words decreased as you spoke">> >>
              ELSE IF scores.end.filler_count > scores.beginning.filler_count + 2
                   THEN << <<"Filler words increased towards end">>, <<>> >>
                   ELSE << <<>>, <<>> >>
    IN  << r1[1] \o r2[1] \o r3[1] \o r4[1], r1[2] \o r2[2] \o r3[2] \o r4[2] >>

\* lines 87-106: <<feedback, strengths>>
TrendFeedback(beginning_score, middle_score, end_score, scores) ==
    LET r1 == IF beginning_score < 50
              THEN << <<"Nervous start">>, <<>> >>
              ELSE IF beginning_score >= 70
                   THEN << <<>>, <<"Strong confident opening">> >>
                   ELSE << <<>>, <<>> >>
        r2 == IF middle_score < beginning_score - 10
              THEN << <<"Lost momentum in the middle">>, <<>> >>
              ELSE << <<>>, <<>> >>
        r3 == IF end_score >= 75
              THEN << <<>>, <<"Finished strongly">> >>
              ELSE IF end_score < 50
                   THEN << <<"Weak ending">>, <<>> >>
                   ELSE << <<>>, <<>> >>
        r4 == IF scores.beginning.filler_count > scores.end.filler_count
              THEN << <<>>, <<"Filler words decreased as you spoke">> >>
              ELSE IF scores.end.filler_count > scores.beginning.filler_count + 2
                   THEN << <<"Filler words increased towards end">>, <<>> >>
                   ELSE << <<>>, <<>> >>
    IN  << r1[1] \o r2[1] \o r3[1] \o r4[1], r1[2] \o r2[2] \o r3[2] \o r4[2] >>

\* lines 55-119: the combined scores, the trend and the report, from the
\* segment details (scores) and the emotion averages (emotion_scores)
TrendReport(scores, emotion_scores) ==
    LET combined(p)     == combined_score(scores[p].fluency_score,
                                          Get(emotion_scores[p], "confidence", Frac(1, 2)))
        beginning_score == combined("beginning")
        middle_score    == combined("middle")
        end_score       == combined("end")
        label           == TrendOf(end_score - beginning_score)
        fb              == TrendFeedback(beginning_score, middle_score, end_score, scores)
    IN  [trend            |-> label.trend,
         trend_label      |-> label.trend_label,
         trend_color      |-> label.trend_color,
         beginning_score  |-> beginning_score,
         middle_score     |-> middle_score,
         end_score        |-> end_score,
         segment_details  |-> scores,
         emotion_segments |-> emotion_scores,
         feedback         |-> fb[1],
         strengths        |-> fb[2]]

\* lines 4-119.  The singleton sets bind scores and emotion_scores to their
\* values once, as the function's local variables do.
track_confidence(text, tl, duration_seconds, seed) ==
    IF TrendDegenerate(text) THEN EmptyTrend
    ELSE
    LET segs         == Parts(text)
        seg_duration == IF duration_seconds > 0 THEN <<duration_seconds, 3>> ELSE <<0, 1>>
    IN  CHOOSE report \in
            { TrendReport(scores, emotion_scores) :
                scores \in {[beginning |-> SegmentDetail(analyze_fluency(segs.beginning, seg_duration, seed)),
                             middle    |-> SegmentDetail(analyze_fluency(segs.middle, seg_duration, seed)),
                             end       |-> SegmentDetail(analyze_fluency(segs.end, seg_duration, seed))]},
                emotion_scores \in {EmotionScores(tl)} } : TRUE

(***************************************************************************)
(* The requests.  A transcript is made of up to MaxChunks pieces of        *)
(* speech; an emotion timeline of up to MaxSnaps snapshots.                *)
(***************************************************************************)
W(w) == [w |-> w, eos |-> FALSE]

E(w) == [w |-> w, eos |-> TRUE]

Chunks ==
    << <<W("hi")>>,
       <<W("Um"), W("so"), W("I"), W("think"), E("maybe")>>,
       <<W("I"), W("led"), W("the"), E("team")>>,
       <<W("We"), W("saved"), W("50%"), W("today")>>,
       <<W("you"), W("know"), W("many"), E("stuff")>>,
       [i \in 1..31 |-> W("the")] >>

RECURSIVE Concat(_)
Concat(cs) == IF cs = <<>> THEN <<>> ELSE Chunks[cs[1]] \o Concat(Tail(cs))

Transcripts ==
    {Concat(cs) : cs \in UNION {[1..n -> 1..Len(Chunks)] : n \in 0..MaxChunks}}

Durations == {0, 7}

Snap(s, c, n) == [stress |-> s, confidence |-> c, neutral |-> n]

\* readings in fortieths; the last two are not valid EmotionSnapshots
Snapshots ==
    { Snap(12, 0, 28), Snap(8, 15, 20), Snap(4, 20, 16), Snap(0, 40, 8),
      Snap(20, 80, 0), [stress |-> 4, confidence |-> -40] }

Timelines == UNION {[1..n -> Snapshots] : n \in 0..MaxSnaps}

\* the validators of EmotionSnapshot in main.py: every reading in [0, 1]
ValidSnapshot(e) ==
    /\ DOMAIN e = {"stress", "confidence", "neutral"}
    /\ \A k \in DOMAIN e : e[k] >= 0 /\ e[k] <= 40

(***************************************************************************)
(* The tokenizer: fluency_analyzer.py line 52 calls nlp(transcript), which *)
(* returns the document or raises; nothing in the three modules catches    *)
(* what it raises.  tokenizer[k] is what the k-th call of nlp made by a    *)
(* scorer does; the calls after the last listed one return.                *)
(***************************************************************************)
Working == <<>>

\* ValueError: spaCy's E088 for a text longer than nlp.max_length
TokenizerFaults == {"ValueError", "MemoryError"}

NlpOutcome(outcomes, k) == IF k \in 1..Len(outcomes) THEN outcomes[k] ELSE "ok"

\* the call ended in the exception instead of returning a report
Raised(exception) == [raised |-> exception]

\* analyze_fluency with the tokenizer's outcome: the early return of lines
\* 48-49 comes before the call of nlp
analyze_fluency_nlp(text, dur, seed, outcomes) ==
    IF FluencyDegenerate(text) THEN EmptyResult
    ELSE IF NlpOutcome(outcomes, 1) # "ok" THEN Raised(NlpOutcome(outcomes, 1))
    ELSE analyze_fluency(text, dur, seed)

SegmentOrder == <<"beginning", "middle", "end">>

\* track_confidence with the tokenizer's outcomes: the loop of lines 26-34
\* calls analyze_fluency for the segments in their order, and the first
\* exception ends the loop and the call
track_confidence_nlp(text, tl, duration_seconds, seed, outcomes) ==
    IF TrendDegenerate(text) THEN EmptyTrend
    ELSE
    LET segs == Parts(text)
        tokenized(k) == ~FluencyDegenerate(segs[SegmentOrder[k]])
        call(k) == 1 + Cardinality({j \in 1..(k - 1) : tokenized(j)})
        failing == {k \in 1..Len(SegmentOrder) :
                       tokenized(k) /\ NlpOutcome(outcomes, call(k)) # "ok"}
    IN  IF failing # {}
        THEN Raised(NlpOutcome(outcomes, call(CHOOSE k \in failing : \A l \in failing : k <= l)))
        ELSE track_confidence(text, tl, duration_seconds, seed)

ValidTimeline(tl) == \A i \in 1..Len(tl) : ValidSnapshot(tl[i])

None == <<>>

(***************************************************************************)
(* Spec: the three scorers called on a request, in any order and any       *)
(* number of times, by interpreters that may be restarted in between.      *)
(***************************************************************************)
Init ==
    /\ transcript \in Transcripts
    /\ duration \in Durations
    /\ timeline = <<>>
    /\ hashSeed \in 1..NumSeeds
    /\ fluency = None
    /\ star = None
    /\ trend = None
    /\ parts = None
    /\ original = None
    /\ before = None
    /\ tokenizer = Working
    /\ calls = None
    /\ frames = None
    /\ calc = None

AnalyzeFluency ==
    /\ fluency' = <<analyze_fluency_nlp(transcript, <<duration, 1>>, hashSeed, tokenizer)>>
    /\ UNCHANGED <<transcript, duration, timeline, hashSeed, star, trend, parts,
                   original, before, tokenizer, calls, frames, calc>>

DetectStar ==
    /\ star' = <<detect_star(transcript)>>
    /\ UNCHANGED <<transcript, duration, timeline, hashSeed, fluency, trend, parts,
                   original, before, tokenizer, calls, frames, calc>>

TrackConfidence ==
    /\ trend' = <<track_confidence_nlp(transcript, timeline, duration, hashSeed, tokenizer)>>
    /\ parts' = IF TrendDegenerate(transcript) THEN None ELSE <<Parts(transcript)>>
    /\ UNCHANGED <<transcript, duration, timeline, hashSeed, fluency, star,
                   original, before, tokenizer, calls, frames, calc>>

\* the service is restarted: the new interpreter has another hash seed
Restart ==
    /\ \E seed \in 1..NumSeeds : seed # hashSeed /\ hashSeed' = seed
    /\ UNCHANGED <<transcript, duration, timeline, fluency, star, trend, parts,
                   original, before, tokenizer, calls, frames, calc>>

Next == AnalyzeFluency \/ DetectStar \/ TrackConfidence \/ Restart

Spec == Init /\ [][Next]_vars

(***************************************************************************)
(* TrendSpec: track_confidence on answers with an emotion timeline.        *)
(***************************************************************************)
TrendTranscripts ==
    {Concat(cs) : cs \in {<<2, 3>>, <<4, 2>>, <<3, 3, 3>>, <<3, 3, 4>>, <<2, 2, 5>>, <<2, 4, 5>>,
                         <<3, 3, 3, 2, 2, 2>>}}

TrendInit ==
    /\ transcript \in TrendTranscripts
    /\ duration \in Durations
    /\ timeline \in Timelines
    /\ hashSeed = 1
    /\ fluency = None
    /\ star = None
    /\ trend = None
    /\ parts = None
    /\ original = None
    /\ before = None
    /\ tokenizer = Working
    /\ calls = None
    /\ frames = None
    /\ calc = None

TrendNext == TrackConfidence

TrendSpec == TrendInit /\ [][TrendNext]_vars

(***************************************************************************)
(* FillerSpec: an answer is scored, then scored again with one more "um".  *)
(***************************************************************************)
InsertAt(text, pos, tok) == SubSeq(text, 1, pos) \o <<tok>> \o SubSeq(text, pos + 1, Len(text))

FillerInit ==
    /\ transcript \in Transcripts
    /\ duration = 0
    /\ timeline = <<>>
    /\ hashSeed = 1
    /\ fluency = None
    /\ star = None
    /\ trend = None
    /\ parts = None
    /\ original = None
    /\ before = None
    /\ tokenizer = Working
    /\ calls = None
    /\ frames = None
    /\ calc = None

\* the speaker says "um" once more, after the first pos words
AddFiller ==
    /\ original = None
    /\ fluency # None
    /\ \E pos \in 0..Len(transcript) :
          transcript' = InsertAt(transcript, pos, W("um"))
    /\ original' = <<transcript>>
    /\ before' = fluency
    /\ fluency' = None
    /\ UNCHANGED <<duration, timeline, hashSeed, star, trend, parts, tokenizer,
                   calls, frames, calc>>

FillerNext == AnalyzeFluency \/ AddFiller

FillerSpec == FillerInit /\ [][FillerNext]_vars

(***************************************************************************)
(* StarSpec: detect_star and analyze_fluency on answers put together from  *)
(* narrative trigger phrases and numbers.                                  *)
(***************************************************************************)
StarPieces ==
    << <<W("Last"), W("year")>>,
       <<W("I"), W("owned")>>,
       <<W("I"), W("led")>>,
       <<W("We"), E("saved")>>,
       <<W("When"), W("I"), W("was"), W("tasked")>>,
       <<W("50%")>>,
       <<W("5weeks")>>,
       <<W("3daysago")>> >>

RECURSIVE StarConcat(_)
StarConcat(ps) == IF ps = <<>> THEN <<>> ELSE StarPieces[ps[1]] \o StarConcat(Tail(ps))

StarTranscripts ==
    {StarConcat(ps) : ps \in UNION {[1..n -> 1..Len(StarPieces)] : n \in 0..MaxPieces}}

StarInit ==
    /\ transcript \in StarTranscripts
    /\ duration = 0
    /\ timeline = <<>>
    /\ hashSeed = 1
    /\ fluency = None
    /\ star = None
    /\ trend = None
    /\ parts = None
    /\ original = None
    /\ before = None
    /\ tokenizer = Working
    /\ calls = None
    /\ frames = None
    /\ calc = None

StarNext == DetectStar \/ AnalyzeFluency

StarSpec == StarInit /\ [][StarNext]_vars

(***************************************************************************)
(* PaceSpec: analyze_fluency on answers of different durations.            *)
(***************************************************************************)
PaceDurations == {0, 3, 7}

\* an answer with six kinds of filler and one with five overused words
ManyFillers ==
    Concat(<<2, 2, 5>>) \o <<W("well"), W("like"), E("okay")>>

ManyRepeats == Concat(<<2, 2, 2, 3, 3, 3, 5, 5, 5>>)

\* an answer with two specific numbers and four vague quantifiers
NumbersAndVague == Concat(<<4, 4, 5, 5>>)

PaceTranscripts == Transcripts \cup {ManyFillers, ManyRepeats, NumbersAndVague}

PaceInit ==
    /\ transcript \in PaceTranscripts
    /\ duration \in PaceDurations
    /\ timeline = <<>>
    /\ hashSeed = 1
    /\ fluency = None
    /\ star = None
    /\ trend = None
    /\ parts = None
    /\ original = None
    /\ before = None
    /\ tokenizer = Working
    /\ calls = None
    /\ frames = None
    /\ calc = None

PaceNext == AnalyzeFluency

PaceSpec == PaceInit /\ [][PaceNext]_vars

(***************************************************************************)
(* Properties.                                                             *)
(***************************************************************************)
SegmentNames == {"beginning", "middle", "end"}

\* the three segment scores of a trend report
SegmentScores(r) == {r.beginning_score, r.middle_score, r.end_score}

\* the trend report of a call that passed both early returns
Scored(r) == r.trend # "unknown"

\* C1: every fluency score analyze_fluency returns, for the whole answer or
\* for a segment inside track_confidence, is an integer from 0 to 100.
C1_FluencyScoreInRange ==
    /\ fluency # None => fluency[1].fluency_score \in 0..100
    /\ (trend # None /\ Scored(trend[1])) =>
          \A p \in SegmentNames : trend[1].segment_details[p].fluency_score \in 0..100

\* an answer with a confidence marker and a strong number and no penalty:
\* the bonuses take the raw score above 100 and the report says 100
C1_Witness ==
    /\ fluency # None
    /\ fluency[1].confidence_markers > 0
    /\ fluency[1].specific_numbers_used > 0
    /\ fluency[1].filler_count = 0
    /\ fluency[1].fluency_score = 100

\* C2: with every emotion reading in [0, 1], the three segment scores of
\* track_confidence are integers from 0 to 100.
C2_SegmentScoresInRange ==
    (trend # None /\ ValidTimeline(timeline)) =>
        \A x \in SegmentScores(trend[1]) : x \in 0..100

\* a scored answer with a valid timeline whose end segment reaches 100
C2_Witness ==
    /\ trend # None
    /\ Scored(trend[1])
    /\ timeline # <<>>
    /\ ValidTimeline(timeline)
    /\ trend[1].end_score = 100

\* C3: for any emotion timeline, readings outside [0, 1] included, the three
\* segment scores are from 0 to 100.
C3_ScoresClamped ==
    trend # None => \A x \in SegmentScores(trend[1]) : x \in 0..100

\* C4: a second call on the same request returns the report the first call
\* returned, whichever interpreter serves it.
C4_Deterministic ==
    [][/\ (fluency # None /\ fluency' # None) => fluency' = fluency
       /\ (star # None /\ star' # None) => star' = star
       /\ (trend # None /\ trend' # None) => trend' = trend]_vars

\* the counts of an answer that the score penalises, besides the fillers
HedgeCount(text) == CountTable(LowerText(text), HEDGE_PHRASES)

WeakOpenerCount(text) == CountTable(LowerText(text), WEAK_OPENERS)

\* the answer before the filler was added had a fluency score to compare
Compared ==
    /\ original # None
    /\ fluency # None
    /\ before # None
    /\ ~(original[1] = <<>> \/ StripLen(original[1]) < 10)

\* C5 as stated: one more "um", wherever it is put, never raises the score.
C5_NeverHigher ==
    Compared => fluency[1].fluency_score <= before[1].fluency_score

\* the added word lowered no other penalised count: no hedge, weak opener or
\* other filler was split and no sentence stopped being very short
OtherCountsKept ==
    /\ HedgeCount(transcript) >= HedgeCount(original[1])
    /\ WeakOpenerCount(transcript) >= WeakOpenerCount(original[1])
    /\ VeryShortSents(transcript) >= VeryShortSents(original[1])
    /\ fluency[1].filler_count = before[1].filler_count + 1

\* C5 amended: one more "um" never raises the score when it lowers no other
\* count the score penalises.
C5_NeverHigherWhenCountsKept ==
    (Compared /\ OtherCountsKept) => fluency[1].fluency_score <= before[1].fluency_score

\* an "um" added inside a sentence of five words or more: the score dropped
C5_Witness ==
    /\ Compared
    /\ OtherCountsKept
    /\ VeryShortSents(original[1]) = 0
    /\ fluency[1].fluency_score < before[1].fluency_score

\* the display label and colour token of each trend
Display(t) ==
    CASE t = "strongly_improving" ->
            <<"Strongly Improving - you build confidence as you speak", "#00ff88">>
      [] t = "improving" ->
            <<"Improving - good momentum through your answer", "#00d4ff">>
      [] t = "stable" ->
            <<"Consistent - steady confidence throughout", "#ffb300">>
      [] t = "declining" ->
            <<"Trailing off - strong start but lost momentum", "#ff8c00">>
      [] t = "strongly_declining" ->
            <<"Significant drop - confidence fell towards the end", "#ff3d71">>

\* the trend the buckets of C6 give to a difference
Bucket(diff) ==
    IF diff >= 15 THEN "strongly_improving"
    ELSE IF diff >= 5 /\ diff <= 14 THEN "improving"
    ELSE IF diff >= -5 /\ diff <= 4 THEN "stable"
    ELSE IF diff >= -15 /\ diff <= -6 THEN "declining"
    ELSE "strongly_declining"

\* C6: the trend of a scored answer is strongly_improving iff diff >= 15,
\* improving iff 5 <= diff <= 14, stable iff -5 <= diff <= 4, declining iff
\* -15 <= diff <= -6, strongly_declining iff diff <= -16, and each trend
\* comes with its own display label and colour token.
C6_TrendBuckets ==
    (trend # None /\ Scored(trend[1])) =>
        LET r    == trend[1]
            diff == r.end_score - r.beginning_score
        IN  /\ (r.trend = "strongly_improving") <=> (diff >= 15)
            /\ (r.trend = "improving") <=> (diff >= 5 /\ diff <= 14)
            /\ (r.trend = "stable") <=> (diff >= -5 /\ diff <= 4)
            /\ (r.trend = "declining") <=> (diff >= -15 /\ diff <= -6)
            /\ (r.trend = "strongly_declining") <=> (diff <= -16)
            /\ <<r.trend_label, r.trend_color>> = Display(r.trend)

\* an answer whose end scores exactly 15 above its beginning
C6_Witness ==
    /\ trend # None
    /\ Scored(trend[1])
    /\ trend[1].end_score - trend[1].beginning_score = 15
    /\ trend[1].trend = "strongly_improving"

C8_DegenerateReports ==
    /\ (fluency # None /\ StripLen(transcript) < 10) =>
          LET r == fluency[1]
          IN  /\ r.fluency_score = 0
              /\ Len(r.issues) = 1
              /\ r.strengths = <<>>
              /\ r.word_count = 0 /\ r.filler_count = 0 /\ r.hedge_count = 0
              /\ r.confidence_markers = 0 /\ r.specific_numbers_used = 0
              /\ r.vague_words_used = 0 /\ r.wpm = 0
              /\ r.filler_breakdown = <<>> /\ r.repeated_words = <<>>
    /\ (star # None /\ StripLen(transcript) < 20) =>
          LET r == star[1]
          IN  /\ r.star_score = 0
              /\ r.components_found = 0
              /\ r.missing = <<"SITUATION", "TASK", "ACTION", "RESULT">>
              /\ r.present = <<>>
              /\ r.strengths = <<>>
    /\ (trend # None /\ (StripLen(transcript) < 30 \/ Len(transcript) < 9)) =>
          LET r == trend[1]
          IN  /\ r.trend = "unknown"
              /\ SegmentScores(r) = {0}
              /\ Len(r.feedback) = 1
              /\ r.strengths = <<>>

\* the answer "hi" after all three scorers have reported on it
C8_Witness ==
    /\ StripLen(transcript) = 2
    /\ fluency # None
    /\ star # None
    /\ trend # None

\* the snapshots of each emotion segment
EmotionSegment(tl, p) ==
    LET n == Len(tl)
        t == n \div 3
    IN  CASE p = "beginning" -> SubSeq(tl, 1, t)
          [] p = "middle"    -> SubSeq(tl, t + 1, 2 * t)
          [] p = "end"       -> SubSeq(tl, 2 * t + 1, n)

\* floor(fluency * 0.6 + confidence * 100 * 0.4), confidence the mean of the
\* segment's snapshots (in fortieths) or 0.5 without any
ExpectedScore(f, seg) ==
    IF seg = <<>>
    THEN ((3 * f) \div 5) + 20
    ELSE (3 * f * Len(seg) + 5 * SumSeq([i \in 1..Len(seg) |-> seg[i].confidence]))
            \div (5 * Len(seg))

ScoreOf(r, p) ==
    CASE p = "beginning" -> r.beginning_score
      [] p = "middle"    -> r.middle_score
      [] p = "end"       -> r.end_score

C10_DefaultReadings ==
    (trend # None /\ Scored(trend[1])) =>
        \A p \in SegmentNames :
            EmotionSegment(timeline, p) = <<>> =>
                LET seg == trend[1].emotion_segments[p]
                IN  /\ DOMAIN seg = {"stress", "confidence", "neutral"}
                    /\ seg.stress = Frac(3, 10)
                    /\ seg.confidence = Frac(1, 2)
                    /\ seg.neutral = Frac(2, 5)

(***************************************************************************)
(* FaultSpec: analyze_fluency and track_confidence with a tokenizer that   *)
(* raises in some of its calls.                                            *)
(***************************************************************************)
MaxCalls == 3

TokenizerBehaviours ==
    UNION {[1..n -> {"ok"} \cup TokenizerFaults] : n \in 0..MaxCalls}

\* the last answer has a first segment of 8 characters
FaultTranscripts ==
    TrendTranscripts
    \cup {<<>>, Chunks[1], Chunks[3],
          <<W("hi"), W("hi"), W("hi")>> \o Chunks[5] \o Chunks[3]}

FaultInit ==
    /\ transcript \in FaultTranscripts
    /\ duration = 0
    /\ timeline = <<>>
    /\ hashSeed = 1
    /\ fluency = None
    /\ star = None
    /\ trend = None
    /\ parts = None
    /\ original = None
    /\ before = None
    /\ tokenizer \in TokenizerBehaviours
    /\ calls = None
    /\ frames = None
    /\ calc = None

FaultNext == AnalyzeFluency \/ TrackConfidence

FaultSpec == FaultInit /\ [][FaultNext]_vars

(***************************************************************************)
(* ConcSpec: NumCalls calls of the scorers run at the same time, their     *)
(* steps interleaved.  frames[ModuleFrame] holds the names bound at module *)
(* level, the cue tables; frames[Frame(c)] holds the local names of call   *)
(* c.  The segments of track_confidence are scored in any order.           *)
(***************************************************************************)
NumCalls == 2

ModuleFrame == 0

Tables ==
    [FILLER_WORDS       |-> FILLER_WORDS,
     HEDGE_PHRASES      |-> HEDGE_PHRASES,
     WEAK_OPENERS       |-> WEAK_OPENERS,
     CONFIDENCE_MARKERS |-> CONFIDENCE_MARKERS,
     VAGUE_QUANTIFIERS  |-> VAGUE_QUANTIFIERS,
     SITUATION_MARKERS  |-> SITUATION_MARKERS,
     TASK_MARKERS       |-> TASK_MARKERS,
     ACTION_MARKERS     |-> ACTION_MARKERS,
     RESULT_MARKERS     |-> RESULT_MARKERS]

\* every call would bind its names at module level
FrameOfModule(c) == ModuleFrame

\* a name assigned in a function body is local to the call
Frame(c) == c

\* name = value in a frame
Bind(frame, name, value) ==
    [n \in DOMAIN frame \cup {name} |-> IF n = name THEN value ELSE frame[n]]

Call(fn, text) == [fn |-> fn, text |-> text, pc |-> "called", result |-> None]

ConcCalls ==
    { Call("analyze_fluency", Concat(<<2, 3>>)),
      Call("analyze_fluency", Concat(<<3, 3, 3>>)),
      Call("analyze_fluency", Chunks[1]),
      Call("detect_star", Concat(<<2, 3>>)),
      Call("track_confidence", Concat(<<2, 3>>)),
      Call("track_confidence", Concat(<<3, 3, 4>>)),
      Call("track_confidence", Chunks[1]) }

ConcInit ==
    /\ transcript = <<>>
    /\ duration = 0
    /\ timeline = <<>>
    /\ hashSeed = 1
    /\ fluency = None
    /\ star = None
    /\ trend = None
    /\ parts = None
    /\ original = None
    /\ before = None
    /\ tokenizer = Working
    /\ calls \in [1..NumCalls -> ConcCalls]
    /\ frames = [f \in {ModuleFrame} \cup 1..NumCalls |->
                    IF f = ModuleFrame THEN Tables ELSE EmptyDict]
    /\ calc = None

Returns(c, report) == [calls EXCEPT ![c].pc = "done", ![c].result = <<report>>]

ConcFrame ==
    UNCHANGED <<transcript, duration, timeline, hashSeed, fluency, star, trend, parts,
                original, before, tokenizer, calc>>

\* lines 47-59: the early return, or filler_counts = {}
EnterFluency(c) ==
    /\ calls[c].fn = "analyze_fluency"
    /\ calls[c].pc = "called"
    /\ IF FluencyDegenerate(calls[c].text)
       THEN /\ calls' = Returns(c, EmptyResult)
            /\ UNCHANGED frames
       ELSE /\ calls' = [calls EXCEPT ![c].pc = "counting"]
            /\ frames' = [frames EXCEPT ![Frame(c)] = Bind(@, "filler_counts", <<>>)]
    /\ ConcFrame

\* lines 60-67: the loop fills filler_counts
CountFillers(c) ==
    /\ calls[c].pc = "counting"
    /\ calls' = [calls EXCEPT ![c].pc = "counted"]
    /\ frames' = [frames EXCEPT ![Frame(c)] =
                      Bind(@, "filler_counts",
                           frames[Frame(c)].filler_counts \o FillerCounts(calls[c].text, hashSeed))]
    /\ ConcFrame

\* lines 69-181
ReturnFluency(c) ==
    /\ calls[c].pc = "counted"
    /\ calls' = Returns(c, FluencyReport(calls[c].text, <<duration, 1>>,
                                         frames[Frame(c)].filler_counts))
    /\ UNCHANGED frames
    /\ ConcFrame

\* detect_star: its names are bound once and read once
CallStar(c) ==
    /\ calls[c].fn = "detect_star"
    /\ calls[c].pc = "called"
    /\ calls' = Returns(c, detect_star(calls[c].text))
    /\ UNCHANGED frames
    /\ ConcFrame

\* lines 4-26: the early returns, or scores = {}
EnterTrend(c) ==
    /\ calls[c].fn = "track_confidence"
    /\ calls[c].pc = "called"
    /\ IF TrendDegenerate(calls[c].text)
       THEN /\ calls' = Returns(c, EmptyTrend)
            /\ UNCHANGED frames
       ELSE /\ calls' = [calls EXCEPT ![c].pc = "segments"]
            /\ frames' = [frames EXCEPT ![Frame(c)] = Bind(@, "scores", EmptyDict)]
    /\ ConcFrame

\* lines 27-34 for one segment that has no entry in scores yet
ScoreSegment(c, p) ==
    /\ calls[c].pc = "segments"
    /\ p \notin DOMAIN frames[Frame(c)].scores
    /\ frames' = [frames EXCEPT ![Frame(c)] =
                      Bind(@, "scores",
                           Bind(frames[Frame(c)].scores, p,
                                SegmentDetail(analyze_fluency(Parts(calls[c].text)[p],
                                    IF duration > 0 THEN <<duration, 3>> ELSE <<0, 1>>,
                                    hashSeed))))]
    /\ UNCHANGED calls
    /\ ConcFrame

\* lines 36-119
ReturnTrend(c) ==
    /\ calls[c].pc = "segments"
    /\ DOMAIN frames[Frame(c)].scores = {"beginning", "middle", "end"}
    /\ calls' = Returns(c, TrendReport(frames[Frame(c)].scores, EmotionScores(timeline)))
    /\ UNCHANGED frames
    /\ ConcFrame

ConcNext ==
    \E c \in 1..NumCalls :
        \/ EnterFluency(c)
        \/ CountFillers(c)
        \/ ReturnFluency(c)
        \/ CallStar(c)
        \/ EnterTrend(c)
        \/ \E p \in {"beginning", "middle", "end"} : ScoreSegment(c, p)
        \/ ReturnTrend(c)

ConcSpec == ConcInit /\ [][ConcNext]_vars

(***************************************************************************)
(* ScoreSpec: lines 110-120 on counts drawn from bounded sets, in Python's *)
(* floating-point arithmetic.                                              *)
(***************************************************************************)
MaxWords == 50

MaxFillers == 7

\* hedge, weak opener, vague, very short, very long, repeated, confidence
\* marker and strong number counts
OtherCounts ==
    { <<0, 0, 0, 0, 0, 0, 0, 0>>, <<5, 1, 5, 4, 0, 0, 0, 0>>, <<5, 2, 5, 4, 4, 5, 0, 0>>,
      <<0, 0, 0, 0, 0, 0, 4, 5>>, <<1, 0, 2, 1, 0, 1, 1, 2>>, <<2, 1, 0, 0, 3, 0, 0, 1>> }

ScoreInit ==
    /\ transcript = <<>>
    /\ duration = 0
    /\ timeline = <<>>
    /\ hashSeed = 1
    /\ fluency = None
    /\ star = None
    /\ trend = None
    /\ parts = None
    /\ original = None
    /\ before = None
    /\ tokenizer = Working
    /\ calls = None
    /\ frames = None
    /\ calc \in {[total_fillers |-> f, word_count |-> w, others |-> o, score |-> None] :
                    f \in 0..MaxFillers, w \in 0..MaxWords, o \in OtherCounts}

\* lines 110-120
ComputeScore ==
    /\ calc.score = None
    /\ calc' = [calc EXCEPT !.score =
                   <<ScoreDouble(calc.total_fillers, calc.word_count, calc.others[1],
                                 calc.others[2], calc.others[3], calc.others[4],
                                 calc.others[5], calc.others[6], calc.others[7],
                                 calc.others[8])>>]
    /\ UNCHANGED <<transcript, duration, timeline, hashSeed, fluency, star, trend, parts,
                   original, before, tokenizer, calls, frames>>

ScoreNext == ComputeScore

ScoreSpec == ScoreInit /\ [][ScoreNext]_vars

(***************************************************************************)
(* FloorSpec: analyze_fluency and track_confidence on answers put together *)
(* from blocks that each earn one or more of the penalties.                *)
(***************************************************************************)
MaxBlocks == 2

LongSentence == [i \in 1..36 |-> IF i = 36 THEN E("um") ELSE W("um")]

\* three short words; two very long sentences; hedges behind a weak opener;
\* short sentences of vague words; short sentences of fillers
FloorBlocks ==
    << <<W("hi"), W("hi"), W("hi")>>,
       LongSentence \o LongSentence,
       Chunks[2] \o Chunks[2],
       Chunks[5] \o Chunks[5],
       <<W("well"), W("like"), E("okay"), W("well"), W("like"), E("okay")>> >>

RECURSIVE Repeat(_, _)
Repeat(block, n) == IF n = 0 THEN <<>> ELSE block \o Repeat(block, n - 1)

RECURSIVE FloorConcat(_, _)
FloorConcat(counts, k) ==
    IF k > Len(FloorBlocks) THEN <<>>
    ELSE Repeat(FloorBlocks[k], counts[k]) \o FloorConcat(counts, k + 1)

FloorTranscripts ==
    {FloorConcat(counts, 1) : counts \in [1..Len(FloorBlocks) -> 0..MaxBlocks]}

FloorInit ==
    /\ transcript \in FloorTranscripts
    /\ duration = 0
    /\ timeline = <<>>
    /\ hashSeed = 1
    /\ fluency = None
    /\ star = None
    /\ trend = None
    /\ parts = None
    /\ original = None
    /\ before = None
    /\ tokenizer = Working
    /\ calls = None
    /\ frames = None
    /\ calc = None

FloorNext == AnalyzeFluency \/ TrackConfidence

FloorSpec == FloorInit /\ [][FloorNext]_vars

\* a trigger phrase of every narrative table occurs in the transcript,
\* whatever the case of its letters
AllFourTriggers(text) ==
    /\ AnyMarker(LowerText(text), SITUATION_MARKERS)
    /\ AnyMarker(LowerText(text), TASK_MARKERS)
    /\ AnyMarker(LowerText(text), ACTION_MARKERS)
    /\ AnyMarker(LowerText(text), RESULT_MARKERS)

\* C11: a transcript with a trigger phrase from each of the four tables gets
\* components_found 4, star_score 100, nothing missing and no Missing
\* feedback; it is never taken for a degenerate transcript.
C11_Completeness ==
    (star # None /\ AllFourTriggers(transcript)) =>
        /\ star[1].components_found = 4
        /\ star[1].star_score = 100
        /\ star[1].missing = <<>>
        /\ star[1].feedback = <<>>
        /\ StripLen(transcript) >= 20

\* "When I was tasked I led We saved.": the four triggers in eight words,
\* three of them written with a capital letter
C11_Witness ==
    /\ star # None
    /\ AllFourTriggers(transcript)
    /\ Len(transcript) = 8
    /\ \E i \in 1..Len(transcript) : transcript[i].w = "When"
    /\ star[1].star_score = 100
    /\ ~star[1].has_metrics

\* the labels of the four components, in their order
Labels == <<"SITUATION", "TASK", "ACTION", "RESULT">>

FlagOf(detail, label) ==
    CASE label = "SITUATION" -> detail.situation
      [] label = "TASK"      -> detail.task
      [] label = "ACTION"    -> detail.action
      [] label = "RESULT"    -> detail.result

\* C12: star_score is 25 times components_found; components_found counts the
\* true flags of components_detail and the entries of present; present and
\* missing split SITUATION, TASK, ACTION, RESULT between them, each list in
\* that order.
C12_StarConsistent ==
    star # None =>
        LET r == star[1]
        IN  /\ r.star_score = 25 * r.components_found
            /\ r.star_score \in {0, 25, 50, 75, 100}
            /\ r.components_found =
                   Cardinality({l \in 1..4 : FlagOf(r.components_detail, Labels[l])})
            /\ r.components_found = Len(r.present)
            /\ r.present = SelectSeq(Labels, LAMBDA l : FlagOf(r.components_detail, l))
            /\ r.missing = SelectSeq(Labels, LAMBDA l : ~FlagOf(r.components_detail, l))

\* an answer with a situation and a result but neither task nor action
C12_Witness ==
    /\ star # None
    /\ star[1].present = <<"SITUATION", "RESULT">>
    /\ star[1].missing = <<"TASK", "ACTION">>
    /\ star[1].star_score = 50

\* C13: the Result component is present iff a Result trigger occurs or
\* has_metrics is true, and has_metrics is true exactly when analyze_fluency
\* counts at least one strong number in the same transcript.
C13_SameMatcher ==
    (star # None /\ fluency # None /\ ~StarDegenerate(transcript)) =>
        /\ star[1].components_detail.result <=>
               (AnyMarker(LowerText(transcript), RESULT_MARKERS) \/ star[1].has_metrics)
        /\ star[1].has_metrics <=> fluency[1].specific_numbers_used >= 1

\* the messages of a list of feedback entries
Messages(entries) == {entries[i].msg : i \in 1..Len(entries)}

PacingMessages == {"Speaking too slowly", "Speaking too fast", "Good speaking pace"}

\* round(a / b) for a >= 0, b > 0: the nearest integer, ties to even
RoundInt(a, b) ==
    LET q == a \div b
        r == a % b
    IN  IF 2 * r > b \/ (2 * r = b /\ q % 2 = 1) THEN q + 1 ELSE q

\* C14: with a duration above 0, wpm is round(word_count / duration * 60) and
\* the pace is too slow below 100, too fast above 180 and good otherwise;
\* with duration 0, wpm is 0 and there is no pacing note.
C14_Pacing ==
    (fluency # None /\ ~FluencyDegenerate(transcript)) =>
        LET r == fluency[1]
        IN  IF duration > 0
            THEN /\ r.wpm = RoundInt(r.word_count * 60, duration)
                 /\ "Speaking too slowly" \in Messages(r.issues) <=> r.wpm < 100
                 /\ "Speaking too fast" \in Messages(r.issues) <=> r.wpm > 180
                 /\ "Good speaking pace" \in Messages(r.strengths)
                        <=> (r.wpm >= 100 /\ r.wpm <= 180)
            ELSE /\ r.wpm = 0
                 /\ Messages(r.issues) \cap PacingMessages = {}
                 /\ Messages(r.strengths) \cap PacingMessages = {}

\* whether x is an entry of the sequence s
In(x, s) == \E i \in 1..Len(s) : s[i] = x

\* the number of conditions of the set that hold
CountTrue(conds) == Cardinality({i \in 1..Len(conds) : conds[i]})

\* C18: the feedback of a scored trend report holds an issue or a strength
\* exactly for the rules that apply (nervous start / strong opening, lost
\* momentum, finished strongly / weak ending, fillers decreased / increased),
\* nothing else, and never both outcomes of one rule.
C18_TrendFeedbackRules ==
    (trend # None /\ Scored(trend[1])) =>
        LET r  == trend[1]
            b  == r.beginning_score
            m  == r.middle_score
            e  == r.end_score
            fb == r.segment_details.beginning.filler_count
            fe == r.segment_details.end.filler_count
        IN  /\ In("Nervous start", r.feedback) <=> b < 50
            /\ In("Strong confident opening", r.strengths) <=> b >= 70
            /\ In("Lost momentum in the middle", r.feedback) <=> m < b - 10
            /\ In("Finished strongly", r.strengths) <=> e >= 75
            /\ In("Weak ending", r.feedback) <=> e < 50
            /\ In("Filler words decreased as you spoke", r.strengths) <=> fb > fe
            /\ In("Filler words increased towards end", r.feedback) <=> fe > fb + 2
            /\ Len(r.feedback) = CountTrue(<<b < 50, m < b - 10, e < 50, fe > fb + 2>>)
            /\ Len(r.strengths) = CountTrue(<<b >= 70, e >= 75, fb > fe>>)
            /\ ~(In("Nervous start", r.feedback) /\ In("Strong confident opening", r.strengths))
            /\ ~(In("Finished strongly", r.strengths) /\ In("Weak ending", r.feedback))
            /\ ~(In("Filler words decreased as you spoke", r.strengths)
                    /\ In("Filler words increased towards end", r.feedback))

\* an answer that opens strongly, sags in the middle and ends weakly with
\* more fillers than it began with
C18_Witness ==
    /\ trend # None
    /\ Scored(trend[1])
    /\ trend[1].feedback = <<"Lost momentum in the middle", "Weak ending",
                             "Filler words increased towards end">>
    /\ trend[1].strengths = <<"Strong confident opening">>

\* the messages of a list of feedback entries, in their order
MessageSeq(entries) == [i \in 1..Len(entries) |-> entries[i].msg]

\* <<x>> when c holds, <<>> otherwise
When(c, x) == IF c THEN <<x>> ELSE <<>>

\* the number of sentences and their mean length times the number
SentenceCount(text) == Max(Cardinality(SentenceEnds(text)), 1)

\* the issues the rules of C19 give, in the order of the rules
IssuesOfRules(r, text, dur) ==
    When(r.filler_count > 5, "Used filler words - most frequent")
    \o When(r.filler_count \in 1..5, "Minor filler words detected")
    \o When(r.hedge_count > 2, "Hedging language used")
    \o When(r.confidence_markers < 2, "Use more action verbs")
    \o When(r.specific_numbers_used < 2 /\ r.vague_words_used > 3, "Used vague quantifiers")
    \o When(Len(text) > 30 * SentenceCount(text), "Sentences too long")
    \o When(Len(text) <= 30 * SentenceCount(text) /\ Len(text) < 8 * SentenceCount(text),
             "Answers too brief")
    \o When(r.repeated_words # <<>>, "Overused words")
    \o When(dur > 0 /\ r.wpm < 100, "Speaking too slowly")
    \o When(dur > 0 /\ r.wpm > 180, "Speaking too fast")

\* the strengths the rules of C19 give, in the order of the rules
StrengthsOfRules(r, text, dur) ==
    When(r.filler_count = 0, "Zero filler words")
    \o When(r.confidence_markers >= 2, "Used confident action verbs")
    \o When(r.specific_numbers_used >= 2, "Backed up points with specific numbers")
    \o When(Len(text) <= 30 * SentenceCount(text) /\ Len(text) >= 8 * SentenceCount(text),
             "Good sentence structure and length")
    \o When(dur > 0 /\ r.wpm >= 100 /\ r.wpm <= 180, "Good speaking pace")

\* the entry of the list with the message
EntryOf(entries, msg) == entries[CHOOSE i \in 1..Len(entries) : entries[i].msg = msg]

\* C19: the issues and strengths of a non-degenerate fluency report are those
\* of the seven rules, one string at most per rule and in the order of the
\* rules; the filler issue names the (at most three) most frequent fillers,
\* the overused-words issue at most three words; there are 3 to 7 entries.
C19_FluencyFeedbackRules ==
    (fluency # None /\ ~FluencyDegenerate(transcript)) =>
        LET r == fluency[1]
        IN  /\ MessageSeq(r.issues) = IssuesOfRules(r, transcript, duration)
            /\ MessageSeq(r.strengths) = StrengthsOfRules(r, transcript, duration)
            /\ r.filler_count > 5 =>
                   LET e == EntryOf(r.issues, "Used filler words - most frequent")
                       named(k) == \E i \in 1..Len(e.names) : e.names[i] = r.filler_breakdown[k].filler
                   IN  /\ e.n = r.filler_count
                       /\ Len(e.names) = Min(3, Len(r.filler_breakdown))
                       /\ \A i \in 1..Len(e.names) :
                              \E k \in 1..Len(r.filler_breakdown) :
                                  /\ r.filler_breakdown[k].filler = e.names[i]
                                  /\ r.filler_breakdown[k].count = e.counts[i]
                       /\ \A k, l \in 1..Len(r.filler_breakdown) :
                              (named(k) /\ ~named(l)) =>
                                  r.filler_breakdown[k].count >= r.filler_breakdown[l].count
                       /\ \A i, j \in 1..Len(e.counts) : i < j => e.counts[i] >= e.counts[j]
            /\ r.repeated_words # <<>> =>
                   LET e == EntryOf(r.issues, "Overused words")
                   IN  /\ Len(e.names) = Min(3, Len(r.repeated_words))
                       /\ e.names = SubSeq(r.repeated_words, 1, Len(e.names))
            /\ Len(r.issues) + Len(r.strengths) \in 3..7

\* an answer with eight fillers of six kinds, four hedges and a duration:
\* three fillers are named and the pacing note is one of five issues
C19_Witness ==
    /\ fluency # None
    /\ transcript = ManyFillers
    /\ duration > 0
    /\ fluency[1].filler_count = 8
    /\ Len(fluency[1].filler_breakdown) = 6
    /\ Len(fluency[1].issues) = 5
    /\ Len(fluency[1].issues[1].names) = 3

\* C20: a non-degenerate answer scores at least 5 for fluency, so that a
\* fluency score of 0 comes only with the degenerate report; a segment of
\* track_confidence has the fluency score 0 only when its text is shorter
\* than 10 characters.
C20_Floor ==
    /\ fluency # None =>
          LET short == transcript = <<>> \/ StripLen(transcript) < 10
          IN  /\ ~short => fluency[1].fluency_score >= 5
              /\ fluency[1].fluency_score = 0 => (short /\ fluency[1] = EmptyResult)
    /\ (trend # None /\ parts # None) =>
          \A p \in SegmentNames :
              trend[1].segment_details[p].fluency_score = 0 => StripLen(parts[1][p]) < 10

\* every penalty at its cap and no bonus: the answer is scored 5, and each
\* of its three segments is scored above 0
C20_Witness ==
    /\ fluency # None
    /\ StripLen(transcript) >= 10
    /\ fluency[1].fluency_score = 5
    /\ fluency[1].confidence_markers = 0
    /\ trend # None
    /\ parts # None
    /\ \A p \in SegmentNames : trend[1].segment_details[p].fluency_score > 0

\* the fault kind the tokenizer's failures are to reach the caller as
TokenizationUnavailable == "TokenizationUnavailable"

\* the first call of nlp that track_confidence makes for the answer fails
FirstSegmentCallFails ==
    /\ ~TrendDegenerate(transcript)
    /\ \E k \in 1..Len(SegmentOrder) :
          LET segs == Parts(transcript)
              made == {j \in 1..k : ~FluencyDegenerate(segs[SegmentOrder[j]])}
          IN  /\ k \in made
              /\ NlpOutcome(tokenizer, Cardinality(made)) # "ok"

\* C16: when the tokenizer fails in analyze_fluency, or in one of the
\* segment calls of track_confidence, the call returns no report and ends
\* in the fault kind "tokenization unavailable".
C16_TokenizerFault ==
    /\ (fluency # None /\ ~FluencyDegenerate(transcript) /\ NlpOutcome(tokenizer, 1) # "ok")
          => fluency[1] = Raised(TokenizationUnavailable)
    /\ (trend # None /\ FirstSegmentCallFails)
          => trend[1] = Raised(TokenizationUnavailable)

\* the report the call gives when it runs alone
Alone(call) ==
    IF call.fn = "analyze_fluency" THEN analyze_fluency(call.text, <<duration, 1>>, hashSeed)
    ELSE IF call.fn = "detect_star" THEN detect_star(call.text)
    ELSE track_confidence(call.text, timeline, duration, hashSeed)

\* C17: whatever the interleaving of the calls, the names bound at module
\* level (the cue tables) are as at the start, no call's frame holds
\* another call's names, and every call that has returned has returned the
\* report it gives when run alone; the order in which track_confidence
\* scores its segments does not change its report.
C17_CallsIndependent ==
    calls # None =>
        /\ frames[ModuleFrame] = Tables
        /\ \A c \in DOMAIN calls :
              calls[c].pc = "done" => calls[c].result = <<Alone(calls[c])>>

\* two calls of analyze_fluency for different answers have both counted
\* their fillers, two for the first and none for the second, and then the
\* first has returned
C17_Witness ==
    /\ calls # None
    /\ calls[1].fn = "analyze_fluency"
    /\ calls[2].fn = "analyze_fluency"
    /\ calls[1].text # calls[2].text
    /\ calls[1].pc = "done"
    /\ calls[2].pc = "counted"
    /\ calls[1].result[1].filler_count = 2
    /\ frames[2].filler_counts = <<>>

\* clamp to [0,100] of the integer truncation of 100 less the seven capped
\* penalties plus the two capped bonuses, in exact arithmetic
FormulaScore(c) ==
    LET o    == c.others
        rest == 100 - Min(15, o[1] * 3) - Min(10, o[2] * 5) - Min(10, o[3] * 2)
                    - Min(10, o[4] * 3) - Min(10, o[5] * 3) - Min(10, o[6] * 2)
                    + Min(10, o[7] * 3) + Min(10, o[8] * 2)
        raw  == IF c.word_count = 0 THEN rest
                ELSE IF 200 * c.total_fillers >= 30 * c.word_count THEN rest - 30
                ELSE Trunc(rest * c.word_count - 200 * c.total_fillers, c.word_count)
    IN  Max(0, Min(100, raw))

TermsOf(c) ==
    Terms(c.total_fillers, c.word_count, c.others[1], c.others[2], c.others[3],
          c.others[4], c.others[5], c.others[6], c.others[7], c.others[8])

\* the order of the code, its reverse, and the filler term last
TermOrders == {CodeOrder, <<9, 8, 7, 6, 5, 4, 3, 2, 1>>, <<2, 3, 4, 5, 6, 7, 8, 9, 1>>}

\* C15 as stated: the fluency score is the clamped truncation of the
\* formula, and the nine capped terms applied in any order give that score.
C15_ScoreAnyOrder ==
    (calc # None /\ calc.score # None) =>
        /\ calc.score[1] = FormulaScore(calc)
        /\ \A order \in TermOrders : ScoreInOrder(TermsOf(calc), order) = calc.score[1]

\* C15, amended: the fluency score, computed with the terms in the order of
\* the code (the filler term first), is the clamped truncation of the
\* formula.
C15_ScoreFormula ==
    (calc # None /\ calc.score # None) => calc.score[1] = FormulaScore(calc)

\* 7 fillers in 50 words, hedges, a weak opener, vague words and short
\* sentences: the filler term, 28 in exact arithmetic, is the double next
\* above 28, and the score is 32
C15_Witness ==
    /\ calc # None
    /\ calc.score # None
    /\ calc.total_fillers = 7
    /\ calc.word_count = 50
    /\ calc.others = <<5, 1, 5, 4, 0, 0, 0, 0>>
    /\ 28 \in {IntPart(FillerTerm(7, 50))}
    /\ \E e \in FillerTerm(7, 50) : e < 0
    /\ calc.score[1] = 32

====
